---- MODULE Spec2Model ----
(***************************************************************************)
(* Model of dow's cache layer (src/dow/cached_download.py): the checksum   *)
(* helpers calculate_md5sum / validate_md5sum and cached_custom_download   *)
(* run by several processes that share one cache root.                     *)
(*                                                                         *)
(* Python values are records [t, s, v]: t is the type, s the characters of *)
(* a str, v the value of an int.  Strings are sequences of one-character   *)
(* strings.  A file is [exists, data, by]: data is its bytes and by is the *)
(* call <<process, call number>> that put it there (<<0, 0>> for a file    *)
(* that was there before any call).                                        *)
(***************************************************************************)
EXTENDS Integers, Sequences, FiniteSets, TLC

\* ---------------------------------------------------------------- bounds
NumProcs == 2
MaxCalls == 2

Procs == 1..NumProcs
CallIds == Procs \X (1..MaxCalls)

\* ------------------------------------------------------- python values
PyNone == [t |-> "None", s |-> <<>>, v |-> 0]
PyStr(s) == [t |-> "str", s |-> s, v |-> 0]
PyInt(v) == [t |-> "int", s |-> <<>>, v |-> v]

\* Python truthiness, as used by `not expected_md5` / `if expected_md5`.
Truthy(x) ==
  CASE x.t = "None" -> FALSE
    [] x.t = "str" -> Len(x.s) > 0
    [] x.t = "int" -> x.v # 0
    [] OTHER -> TRUE

RECURSIVE Repeat(_, _)
Repeat(c, n) == IF n = 0 THEN <<>> ELSE <<c>> \o Repeat(c, n - 1)

\* ------------------------------------------------------------- digests
\* hashlib.md5 is a library: it is modelled by a small rolling hash with the
\* same interface (update per block, 32 lowercase hexadecimal characters).
HexDigits == <<"0", "1", "2", "3", "4", "5", "6", "7",
               "8", "9", "a", "b", "c", "d", "e", "f">>
HexChars == {HexDigits[i] : i \in 1..16}
HashMod == 16 * 16 * 16 * 16
DigestLen == 32
DefaultBlockSize == 65536

RECURSIVE md5_update(_, _)
md5_update(h, block) ==
  IF block = <<>> THEN h
  ELSE md5_update((h * 31 + Head(block) + 1) % HashMod, Tail(block))

RECURSIVE ToHex(_, _)
ToHex(n, width) ==
  IF width = 0 THEN <<>>
  ELSE ToHex(n \div 16, width - 1) \o <<HexDigits[(n % 16) + 1]>>

hexdigest(h) == ToHex(h, DigestLen)

\* file.read(block_size): the next block and the rest of the file.
ReadBlock(data, block_size) ==
  IF Len(data) <= block_size THEN <<data, <<>>>>
  ELSE <<SubSeq(data, 1, block_size), SubSeq(data, block_size + 1, Len(data))>>

RECURSIVE md5_blocks(_, _, _)
md5_blocks(h, data, block_size) ==
  LET r == ReadBlock(data, block_size) IN
  IF r[1] = <<>> THEN h
  ELSE md5_blocks(md5_update(h, r[1]), r[2], block_size)

\* calculate_md5sum(file_path, block_size): block_size 0 stands for None.
calculate_md5sum(data, block_size) ==
  LET bs == IF block_size = 0 THEN DefaultBlockSize ELSE block_size IN
  hexdigest(md5_blocks(0, data, bs))

\* Faulty variant: the length is not checked.
WellFormedTypeOnly(expected_md5) == expected_md5.t = "str"

\* The check at the head of validate_md5sum.
WellFormedMd5(expected_md5) ==
  expected_md5.t = "str" /\ Len(expected_md5.s) = DigestLen

NoExc == [type |-> "none", actual |-> <<>>, expected |-> PyNone]
ValueError(expected_md5) ==
  [type |-> "ValueError", actual |-> <<>>, expected |-> expected_md5]
MismatchError(actual_md5, expected_md5) ==
  [type |-> "AssertionError", actual |-> actual_md5, expected |-> expected_md5]
OtherError(name) == [type |-> name, actual |-> <<>>, expected |-> PyNone]

\* Faulty variant: a mismatch is returned as False instead of raised.
validate_md5sum_ReturnsFalse(data, expected_md5, block_size) ==
  IF ~WellFormedMd5(expected_md5)
  THEN [ok |-> FALSE, opened |-> FALSE, exc |-> ValueError(expected_md5)]
  ELSE [ok |-> calculate_md5sum(data, block_size) = expected_md5.s,
        opened |-> TRUE, exc |-> NoExc]

\* validate_md5sum(file_path, expected_md5): what it returns or raises, and
\* whether the file was opened on the way.
validate_md5sum(data, expected_md5, block_size) ==
  IF ~WellFormedMd5(expected_md5)
  THEN [ok |-> FALSE, opened |-> FALSE, exc |-> ValueError(expected_md5)]
  ELSE LET actual_md5 == calculate_md5sum(data, block_size) IN
       IF actual_md5 = expected_md5.s
       THEN [ok |-> TRUE, opened |-> TRUE, exc |-> NoExc]
       ELSE [ok |-> FALSE, opened |-> TRUE,
             exc |-> MismatchError(actual_md5, expected_md5)]

\* ------------------------------------------------------- paths and urls
custom_cache_root == <<"~", "/", ".custom_cache", "/", "gdown">>

\* str.replace(old, new) for a one-character old.
RECURSIVE StrReplace(_, _, _)
StrReplace(s, old, new) ==
  IF s = <<>> THEN <<>>
  ELSE (IF Head(s) = old THEN new ELSE <<Head(s)>>) \o StrReplace(Tail(s), old, new)

SLASH == <<"-", "S", "L", "A", "S", "H", "-">>
COLON == <<"-", "C", "O", "L", "O", "N", "-">>
EQUAL == <<"-", "E", "Q", "U", "A", "L", "-">>
QUESTION == <<"-", "Q", "U", "E", "S", "T", "I", "O", "N", "-">>

\* os.path.join(a, b) on posix.
osp_join(a, b) ==
  IF b # <<>> /\ Head(b) = "/" THEN b
  ELSE IF a = <<>> \/ a[Len(a)] = "/" THEN a \o b
  ELSE a \o <<"/">> \o b

\* Faulty variant: the question mark is left in the name.
CacheNameKeepsQuestion(url) ==
  StrReplace(StrReplace(StrReplace(url, "/", SLASH), ":", COLON), "=", EQUAL)

\* The cache file name of a url (file_path is None).
CacheName(url) ==
  StrReplace(StrReplace(StrReplace(StrReplace(url, "/", SLASH), ":", COLON),
                        "=", EQUAL), "?", QUESTION)

NoPath == <<>>

\* Lines 76-83: the target of a call.
TargetPath(url, file_path) ==
  IF file_path = NoPath THEN osp_join(custom_cache_root, CacheName(url))
  ELSE file_path

\* ------------------------------------------------------------- inputs
Urls == {<<"h", ":", "/", "a", "?", "i", "=", "b">>}
FilePaths == {NoPath, <<"o", "u", "t">>}
Malformed3 == PyStr(<<"a", "b", "c">>)
NonHex32 == PyStr(Repeat("z", DigestLen))
NewContent == <<1, 2>>
OldContent == <<2, 1>>
Contents == {NewContent, OldContent}
ExpectedValues == {PyNone, Malformed3, PyStr(calculate_md5sum(NewContent, 0))}
Postprocesses == {"None", "callback"}
\* What custom_download raises when it fails.
DownloadErrors == {"FileURLRetrievalError", "ProxyError"}

Paths == {TargetPath(u, f) : u \in Urls, f \in FilePaths}

NoCall == <<0, 0>>
NoFile == [exists |-> FALSE, data |-> <<>>, by |-> NoCall]
File(data, by) == [exists |-> TRUE, data |-> data, by |-> by]
NoArgs == [url |-> <<>>, file_path |-> NoPath, expected_md5 |-> PyNone,
           postprocess |-> "None"]
NoTemp == [exists |-> FALSE, dl |-> NoFile]

\* -------------------------------------------------------------- state
VARIABLES
  fs,        \* path -> file: the files of the cache root and of the targets
  temps,     \* call -> its temporary directory and the file "dl" in it
  lock,      \* holder of <cache root>/_dl_lock, 0 when free
  pc,        \* process -> where its current call is
  ncalls,    \* process -> calls started so far
  args,      \* process -> arguments of the current call
  file_path, \* process -> target path of the current call
  existed,   \* process -> what osp.exists(file_path) said at line 86/90
  pending,   \* process -> exception caught at line 119, until re-raised
  trace,     \* process -> what the current call has done so far
  ret,       \* process -> value returned by the current call
  exc,       \* process -> exception the current call raised
  log,       \* process -> summaries of its finished calls, oldest first
  vin,       \* arguments of a direct validate_md5sum call
  vout,      \* what that call returned or raised
  uin,       \* url of a call whose file_path is None
  uout,      \* the file_path lines 76-83 derive from it
  argv,      \* main: the parsed command line
  main_pc,   \* main: where it is
  main_url,  \* main: url (lines 132-145)
  main_id,   \* main: file_id (lines 132-145)
  called,    \* main: the operations called, with their arguments
  main_exc,  \* main: the exception in flight
  stderr,    \* main: what was printed to sys.stderr
  status     \* main: how the process ended

cache_vars == <<fs, temps, lock, pc, ncalls, args, file_path, existed, pending,
                trace, ret, exc, log>>
checksum_vars == <<vin, vout>>
path_vars == <<uin, uout>>
main_vars == <<argv, main_pc, main_url, main_id, called, main_exc, stderr, status>>
other_vars == <<checksum_vars, path_vars, main_vars>>
vars == <<cache_vars, other_vars>>

Cid(p) == <<p, ncalls[p]>>

RECURSIVE SumCalls(_)
SumCalls(n) == IF n = 0 THEN 0 ELSE ncalls[n] + SumCalls(n - 1)
\* Calls started so far, by all processes.
TotalCalls == SumCalls(NumProcs)

\* Inputs of the direct validate_md5sum calls.
Datas == {<<>>, <<1>>, <<1, 2>>, <<2, 1>>, <<1, 2, 3>>}
BlockSizes == {0, 1, 2}
UpperDigest == PyStr(Repeat("0", DigestLen - 1) \o <<"A">>)
ValidateExpected ==
  {PyNone, PyInt(5), PyStr(<<>>), Malformed3, NonHex32, UpperDigest,
   PyStr(Repeat("0", DigestLen - 1)), PyStr(Repeat("0", DigestLen + 1))}
  \cup {PyStr(calculate_md5sum(d, 0)) : d \in Datas}
NoVin == [data |-> <<>>, expected_md5 |-> PyNone, block_size |-> 0]
NotCalled == [ok |-> FALSE, opened |-> FALSE, exc |-> OtherError("not called")]

\* No direct validate_md5sum call.
ValidateIdle == vin = NoVin /\ vout = NotCalled

NoUrl == <<"?">>
NotDerived == <<>>
\* No path derivation on its own.
PathIdle == uin = NoUrl /\ uout = NotDerived

NoArgv == [url_or_id |-> <<>>, id |-> FALSE, folder |-> FALSE, remaining_ok |-> FALSE]
Unset == <<"None">>
\* main is not run.
MainIdle ==
  /\ argv = NoArgv
  /\ main_pc = "off"
  /\ main_url = Unset
  /\ main_id = Unset
  /\ called = <<>>
  /\ main_exc = "none"
  /\ stderr = <<>>
  /\ status = "running"

\* No cached_custom_download call.
CacheIdle ==
  /\ fs = [q \in Paths |-> NoFile]
  /\ temps = [c \in CallIds |-> NoTemp]
  /\ lock = 0
  /\ pc = [p \in Procs |-> "idle"]
  /\ ncalls = [p \in Procs |-> 0]
  /\ args = [p \in Procs |-> NoArgs]
  /\ file_path = [p \in Procs |-> NoPath]
  /\ existed = [p \in Procs |-> FALSE]
  /\ pending = [p \in Procs |-> NoExc]
  /\ trace = [p \in Procs |-> <<>>]
  /\ ret = [p \in Procs |-> NoPath]
  /\ exc = [p \in Procs |-> NoExc]
  /\ log = [p \in Procs |-> <<>>]

Init ==
  /\ ValidateIdle
  /\ PathIdle
  /\ MainIdle
  /\ fs \in [Paths -> {NoFile, File(OldContent, NoCall)}]
  /\ temps = [c \in CallIds |-> NoTemp]
  /\ lock = 0
  /\ pc = [p \in Procs |-> "idle"]
  /\ ncalls = [p \in Procs |-> 0]
  /\ args = [p \in Procs |-> NoArgs]
  /\ file_path = [p \in Procs |-> NoPath]
  /\ existed = [p \in Procs |-> FALSE]
  /\ pending = [p \in Procs |-> NoExc]
  /\ trace = [p \in Procs |-> <<>>]
  /\ ret = [p \in Procs |-> NoPath]
  /\ exc = [p \in Procs |-> NoExc]
  /\ log = [p \in Procs |-> <<>>]

\* What a call did, in order: <<name, argument>>.
Ev(name) == <<name, <<>>>>
EvA(name, a) == <<name, a>>

Summary(p, tr, r, e) ==
  [call |-> Cid(p), args |-> args[p], file_path |-> file_path[p],
   existed |-> existed[p], trace |-> tr, ret |-> r, exc |-> e]

\* The call of p ends: it returns r (e = NoExc) or raises e.
Finish(p, tr, r, e) ==
  /\ pc' = [pc EXCEPT ![p] = "done"]
  /\ trace' = [trace EXCEPT ![p] = tr]
  /\ ret' = [ret EXCEPT ![p] = r]
  /\ exc' = [exc EXCEPT ![p] = e]
  /\ log' = [log EXCEPT ![p] = Append(@, Summary(p, tr, r, e))]

Return(p, tr) ==
  Finish(p, Append(tr, EvA("return", file_path[p])), file_path[p], NoExc)
Raise(p, tr, e) == Finish(p, Append(tr, EvA("raise", <<e.type>>)), NoPath, e)

\* Stay in the call, at label l.
Goto(p, l, tr) ==
  /\ pc' = [pc EXCEPT ![p] = l]
  /\ trace' = [trace EXCEPT ![p] = tr]
  /\ UNCHANGED <<ret, exc, log>>

\* cached_custom_download(url, file_path, expected_md5, postprocess=...) is
\* called: lines 76-83.
Call(p, url, path, expected_md5, postprocess) ==
  /\ pc[p] \in {"idle", "done"}
  /\ TotalCalls < MaxCalls
  /\ ncalls' = [ncalls EXCEPT ![p] = @ + 1]
  /\ args' = [args EXCEPT ![p] = [url |-> url, file_path |-> path,
                                  expected_md5 |-> expected_md5,
                                  postprocess |-> postprocess]]
  /\ file_path' = [file_path EXCEPT ![p] = TargetPath(url, path)]
  /\ existed' = [existed EXCEPT ![p] = FALSE]
  /\ pending' = [pending EXCEPT ![p] = NoExc]
  /\ pc' = [pc EXCEPT ![p] = "check"]
  /\ trace' = [trace EXCEPT ![p] = <<>>]
  /\ ret' = [ret EXCEPT ![p] = NoPath]
  /\ exc' = [exc EXCEPT ![p] = NoExc]
  /\ UNCHANGED <<fs, temps, lock, log, other_vars>>

\* Faulty variant: an existing file without checksum is downloaded again.
BranchNoHit(ex, md5) ==
  IF ex /\ Truthy(md5) THEN "prevalidate" ELSE "mkdtemp"

\* Faulty variant: an existing file is verified even without checksum.
BranchVerifyOnHit(ex, md5) ==
  IF ex THEN "prevalidate" ELSE "mkdtemp"

\* Faulty variant: a hit without checksum goes on to the callback.
BranchHitRunsCallback(ex, md5) ==
  IF ex /\ ~Truthy(md5) THEN "postprocess"
  ELSE IF ex /\ Truthy(md5) THEN "prevalidate"
  ELSE "mkdtemp"

\* Lines 86 and 90: the branch taken for what osp.exists said and the
\* checksum given.
BranchAfterExists(ex, md5) ==
  IF ex /\ ~Truthy(md5) THEN "return"
  ELSE IF ex /\ Truthy(md5) THEN "prevalidate"
  ELSE "mkdtemp"

\* Lines 85-90: osp.exists(file_path) and the choice of branch.
CheckExists(p) ==
  /\ pc[p] = "check"
  /\ LET ex == fs[file_path[p]].exists
         to == BranchAfterExists(ex, args[p].expected_md5)
         tr == Append(trace[p], Ev("exists"))
     IN /\ existed' = [existed EXCEPT ![p] = ex]
        /\ IF to = "return" THEN Return(p, tr) ELSE Goto(p, to, tr)
  /\ UNCHANGED <<fs, temps, lock, ncalls, args, file_path, pending, other_vars>>

\* The events of one validate_md5sum call: the digest it computed, if it
\* got as far as reading the file.
ValidateTrace(tr, data, r) ==
  IF r.opened THEN Append(tr, EvA("digest", calculate_md5sum(data, 0))) ELSE tr

\* Faulty variant: the AssertionError of the existing file is not caught.
PreMismatchRaises(r) ==
  IF r.ok THEN "return" ELSE "raise"

\* Lines 91-96: what follows the verification of the existing file; only
\* AssertionError is caught.
AfterPreValidate(r) ==
  IF r.ok THEN "return"
  ELSE IF r.exc.type = "AssertionError" THEN "download"
  ELSE "raise"

\* Lines 91-96: the existing file is verified; a mismatch is printed and the
\* call goes on to download.
PreValidate(p) ==
  /\ pc[p] = "prevalidate"
  /\ LET data == fs[file_path[p]].data
         r == validate_md5sum(data, args[p].expected_md5, 0)
         tr == ValidateTrace(trace[p], data, r)
         to == AfterPreValidate(r)
     IN CASE to = "return" -> Return(p, tr)
          [] to = "download" -> Goto(p, "mkdtemp", Append(tr, Ev("warning")))
          [] OTHER -> Raise(p, tr, r.exc)
  /\ UNCHANGED <<fs, temps, lock, ncalls, args, file_path, existed, pending, other_vars>>

\* Lines 99-104: tempfile.mkdtemp(dir=custom_cache_root).
Mkdtemp(p) ==
  /\ pc[p] = "mkdtemp"
  /\ temps' = [temps EXCEPT ![Cid(p)] = [exists |-> TRUE, dl |-> NoFile]]
  /\ Goto(p, "download", Append(trace[p], Ev("mkdtemp")))
  /\ UNCHANGED <<fs, lock, ncalls, args, file_path, existed, pending, other_vars>>

\* Line 116: custom_download starts writing <temp_root>/dl.
\* Faulty variant: the download is written straight to the target path.
DownloadStartInPlace(p) ==
  /\ pc[p] = "download"
  /\ fs' = [fs EXCEPT ![file_path[p]] = File(<<>>, Cid(p))]
  /\ Goto(p, "downloading", Append(trace[p], Ev("fetch")))
  /\ UNCHANGED <<temps, lock, ncalls, args, file_path, existed, pending, other_vars>>

\* Faulty variant: the lock is taken before the transfer.
DownloadStartLocked(p) ==
  /\ pc[p] = "download"
  /\ lock = 0
  /\ lock' = p
  /\ temps' = [temps EXCEPT ![Cid(p)].dl = File(<<>>, Cid(p))]
  /\ Goto(p, "downloading", Append(trace[p], Ev("fetch")))
  /\ UNCHANGED <<fs, ncalls, args, file_path, existed, pending, other_vars>>

DownloadStart(p) ==
  /\ pc[p] = "download"
  /\ temps' = [temps EXCEPT ![Cid(p)].dl = File(<<>>, Cid(p))]
  /\ Goto(p, "downloading", Append(trace[p], Ev("fetch")))
  /\ UNCHANGED <<fs, lock, ncalls, args, file_path, existed, pending, other_vars>>

\* Line 116: custom_download returns, the whole body c is in <temp_root>/dl.
DownloadFinish(p, c) ==
  /\ pc[p] = "downloading"
  /\ temps' = [temps EXCEPT ![Cid(p)].dl = File(c, Cid(p))]
  /\ Goto(p, "acquire", Append(trace[p], EvA("downloaded", c)))
  /\ UNCHANGED <<fs, lock, ncalls, args, file_path, existed, pending, other_vars>>

\* Line 116 raises e midway: <temp_root>/dl is left as far as it was written.
DownloadFail(p, e) ==
  /\ pc[p] = "downloading"
  /\ pending' = [pending EXCEPT ![p] = OtherError(e)]
  /\ Goto(p, "except", Append(trace[p], EvA("download failed", <<e>>)))
  /\ UNCHANGED <<fs, temps, lock, ncalls, args, file_path, existed, other_vars>>

\* Faulty variant: the move is not guarded by the lock.
AcquireNoLock(p) ==
  /\ pc[p] = "acquire"
  /\ Goto(p, "move", Append(trace[p], Ev("acquire")))
  /\ UNCHANGED <<fs, temps, lock, ncalls, args, file_path, existed, pending, other_vars>>

\* Line 117: filelock.FileLock(lock_path) is entered.
Acquire(p) ==
  /\ pc[p] = "acquire"
  /\ lock = 0
  /\ lock' = p
  /\ Goto(p, "move", Append(trace[p], Ev("acquire")))
  /\ UNCHANGED <<fs, temps, ncalls, args, file_path, existed, pending, other_vars>>

\* Line 118: shutil.move(temp_file_path, file_path).
Move(p) ==
  /\ pc[p] = "move"
  /\ fs' = [fs EXCEPT ![file_path[p]] = File(temps[Cid(p)].dl.data, Cid(p))]
  /\ temps' = [temps EXCEPT ![Cid(p)].dl = NoFile]
  /\ Goto(p, "release", Append(trace[p], Ev("move")))
  /\ UNCHANGED <<lock, ncalls, args, file_path, existed, pending, other_vars>>

\* Line 118 raises: nothing is moved.
MoveFail(p) ==
  /\ pc[p] = "move"
  /\ pending' = [pending EXCEPT ![p] = OtherError("OSError")]
  /\ Goto(p, "release", Append(trace[p], EvA("move failed", <<"OSError">>)))
  /\ UNCHANGED <<fs, temps, lock, ncalls, args, file_path, existed, other_vars>>

\* Faulty variant: the lock stays held when the move raised.
ReleaseLeaksOnError(p) ==
  /\ pc[p] = "release"
  /\ lock' = IF pending[p] = NoExc THEN 0 ELSE lock
  /\ Goto(p, IF pending[p] = NoExc THEN "postvalidate" ELSE "except",
          Append(trace[p], Ev("release")))
  /\ UNCHANGED <<fs, temps, ncalls, args, file_path, existed, pending, other_vars>>

\* Line 117: the with block is left, normally or by the exception of line 118.
Release(p) ==
  /\ pc[p] = "release"
  /\ lock' = 0
  /\ Goto(p, IF pending[p] = NoExc THEN "postvalidate" ELSE "except",
          Append(trace[p], Ev("release")))
  /\ UNCHANGED <<fs, temps, ncalls, args, file_path, existed, pending, other_vars>>

\* Faulty variant: the temporary directory is not removed.
ExceptNoCleanup(p) ==
  /\ pc[p] = "except"
  /\ Raise(p, trace[p], pending[p])
  /\ UNCHANGED <<fs, temps, lock, ncalls, args, file_path, existed, pending, other_vars>>

\* Lines 119-121: shutil.rmtree(temp_root), then the exception is re-raised.
Except(p) ==
  /\ pc[p] = "except"
  /\ temps' = [temps EXCEPT ![Cid(p)] = NoTemp]
  /\ Raise(p, Append(trace[p], Ev("rmtree")), pending[p])
  /\ UNCHANGED <<fs, lock, ncalls, args, file_path, existed, pending, other_vars>>

\* Faulty variant: a mismatch of the published file is let through.
PostMismatchTolerated(r) == "postprocess"

\* Lines 123-124: what follows the verification of the published file;
\* nothing is caught.
AfterPostValidate(r) ==
  IF r.ok THEN "postprocess" ELSE "raise"

\* Lines 123-124: the file now at file_path is verified.
PostValidate(p) ==
  /\ pc[p] = "postvalidate"
  /\ IF Truthy(args[p].expected_md5)
     THEN LET data == fs[file_path[p]].data
              r == validate_md5sum(data, args[p].expected_md5, 0)
              tr == ValidateTrace(trace[p], data, r)
          IN IF AfterPostValidate(r) = "postprocess"
             THEN Goto(p, "postprocess", Append(tr, Ev("verified")))
             ELSE Raise(p, tr, r.exc)
     ELSE Goto(p, "postprocess", trace[p])
  /\ UNCHANGED <<fs, temps, lock, ncalls, args, file_path, existed, pending, other_vars>>

\* Faulty variant: an exception of the callback is swallowed.
PostProcessSwallows(p, raised) ==
  /\ pc[p] = "postprocess"
  /\ IF args[p].postprocess = "None"
     THEN ~raised /\ Return(p, trace[p])
     ELSE LET tr == Append(trace[p], EvA("postprocess", file_path[p])) IN
          Return(p, IF raised THEN Append(tr, Ev("callback raised")) ELSE tr)
  /\ UNCHANGED <<fs, temps, lock, ncalls, args, file_path, existed, pending, other_vars>>

\* Lines 126-130: postprocess(file_path) if there is one, then return
\* file_path; raised is whether the callback raises.
PostProcess(p, raised) ==
  /\ pc[p] = "postprocess"
  /\ IF args[p].postprocess = "None"
     THEN ~raised /\ Return(p, trace[p])
     ELSE LET tr == Append(trace[p], EvA("postprocess", file_path[p])) IN
          IF raised
          THEN Raise(p, Append(tr, Ev("callback raised")), OtherError("CallbackError"))
          ELSE Return(p, tr)
  /\ UNCHANGED <<fs, temps, lock, ncalls, args, file_path, existed, pending, other_vars>>

Next ==
  \/ \E p \in Procs, u \in Urls, f \in FilePaths, e \in ExpectedValues,
        pp \in Postprocesses : Call(p, u, f, e, pp)
  \/ \E p \in Procs : CheckExists(p)
  \/ \E p \in Procs : PreValidate(p)
  \/ \E p \in Procs : Mkdtemp(p)
  \/ \E p \in Procs : DownloadStart(p)
  \/ \E p \in Procs, c \in Contents : DownloadFinish(p, c)
  \/ \E p \in Procs, e \in DownloadErrors : DownloadFail(p, e)
  \/ \E p \in Procs : Acquire(p)
  \/ \E p \in Procs : Move(p)
  \/ \E p \in Procs : MoveFail(p)
  \/ \E p \in Procs : Release(p)
  \/ \E p \in Procs : Except(p)
  \/ \E p \in Procs : PostValidate(p)
  \/ \E p \in Procs, raised \in BOOLEAN : PostProcess(p, raised)

Spec == Init /\ [][Next]_vars

\* ------------------------------------------- validate_md5sum on its own
InitValidate ==
  /\ vin \in [data : Datas, expected_md5 : ValidateExpected, block_size : BlockSizes]
  /\ vout = NotCalled
  /\ PathIdle
  /\ MainIdle
  /\ CacheIdle

\* validate_md5sum(file_path, expected_md5, block_size=...) on a file that
\* holds vin.data.
Validate ==
  /\ vout = NotCalled
  /\ vout' = validate_md5sum(vin.data, vin.expected_md5, vin.block_size)
  /\ UNCHANGED <<vin, cache_vars, path_vars, main_vars>>

NextValidate == Validate

SpecValidate == InitValidate /\ [][NextValidate]_vars

\* Lines 117-118 of process p: entering the lock, the move, leaving the lock.
Publish(p) == Acquire(p) \/ Move(p) \/ MoveFail(p) \/ Release(p)

\* filelock.FileLock blocks and polls until the lock file is free, and
\* shutil.move and the release end: a process at lines 117-118 goes on.
FairSpec == Spec /\ \A p \in Procs : WF_vars(Publish(p))

\* ------------------------------------- the derived file_path on its own
MaxUrlLen == 3
UrlChars == {"a", "-", "/", ":", "=", "?"}

RECURSIVE Strings(_)
\* The strings over UrlChars of length n.
Strings(n) ==
  IF n = 0 THEN {<<>>}
  ELSE {<<c>> \o t : c \in UrlChars, t \in Strings(n - 1)}

UrlInputs == UNION {Strings(n) : n \in 0..MaxUrlLen}

InitPath ==
  /\ uin \in UrlInputs
  /\ uout = NotDerived
  /\ ValidateIdle
  /\ MainIdle
  /\ CacheIdle

\* Lines 76-83 for file_path=None and url = uin.
Derive ==
  /\ uout = NotDerived
  /\ uout' = TargetPath(uin, NoPath)
  /\ UNCHANGED <<uin, cache_vars, checksum_vars, main_vars>>

NextPath == Derive

SpecPath == InitPath /\ [][NextPath]_vars

\* ------------------------------------------------------------- cli.main
StartsWith(s, pre) == Len(s) >= Len(pre) /\ SubSeq(s, 1, Len(pre)) = pre
Drop(s, n) == SubSeq(s, n + 1, Len(s))

\* Faulty variant: the pattern is "^http://.*".
re_match_HttpOnly(s) == StartsWith(s, <<"h", "t", "t", "p", ":", "/", "/">>)

\* re.match("^https?://.*", s): "http", then an "s" or not, then "://",
\* then anything.
re_match(s) ==
  /\ StartsWith(s, <<"h", "t", "t", "p">>)
  /\ LET r == Drop(s, 4) IN
       \/ StartsWith(r, <<"s">>) /\ StartsWith(Drop(r, 1), <<":", "/", "/">>)
       \/ StartsWith(r, <<":", "/", "/">>)

\* The names bound in module cli when main runs: its imports, its class and
\* its functions.
ModuleNames ==
  {"argparse", "os", "re", "sys", "textwrap", "warnings", "requests", "six",
   "__version__", "indent", "custom_download", "MAX_NUMBER_FILES",
   "FileURLRetrievalError", "FolderContentsMaximumLimitError",
   "_ShowVersionAction", "calculate_file_size", "main"}

\* def indent(t, p)
IndentParams == <<"t", "p">>

\* Python's binding of a call with npos positional arguments and the keyword
\* arguments kws to the parameters params, none of which has a default.
BindArgs(params, npos, kws) ==
  LET names == {params[i] : i \in 1..Len(params)}
      positional == {params[i] : i \in 1..npos}
  IN IF /\ npos <= Len(params)
        /\ kws \subseteq names
        /\ kws \cap positional = {}
        /\ positional \cup kws = names
     THEN "ok"
     ELSE "TypeError"

\* Positional arguments: urls, near-urls and ids.
UrlOrIds ==
  {<<"h", "t", "t", "p", ":", "/", "/", "a">>,
   <<"h", "t", "t", "p", "s", ":", "/", "/", "a">>,
   <<"h", "t", "t", "p", "s", ":", "/", "/">>,
   <<"h", "t", "t", "p", ":", "/", "a">>,
   <<"h", "t", "t", "p", "s", "s", ":", "/", "/", "a">>,
   <<"H", "T", "T", "P", ":", "/", "/", "a">>,
   <<"x", "h", "t", "t", "p", ":", "/", "/", "a">>,
   <<"h", "t", "t">>,
   <<"a", "b", "c">>,
   <<>>}

\* What parse_args can return (line 124).
Argvs ==
  [url_or_id : UrlOrIds, id : BOOLEAN, folder : BOOLEAN, remaining_ok : BOOLEAN]

\* How the operation called at lines 149-173 can end, by the except clauses
\* of lines 174-195 that tell the kinds apart.
Outcomes(op) ==
  IF op = "download_folder"
  THEN {"none", "FileURLRetrievalError", "FolderContentsMaximumLimitError",
        "ProxyError", "Exception"}
  ELSE {"none", "FileURLRetrievalError", "ProxyError", "Exception"}

OperationCall(op, kw) == [op |-> op, kw |-> kw, raised |-> "pending"]

InitMain ==
  /\ argv \in Argvs
  /\ main_pc = "select"
  /\ main_url = Unset
  /\ main_id = Unset
  /\ called = <<>>
  /\ main_exc = "none"
  /\ stderr = <<>>
  /\ status = "running"
  /\ ValidateIdle
  /\ PathIdle
  /\ CacheIdle

\* Lines 132-145: url and file_id from args.id and args.url_or_id.
SelectMode ==
  /\ main_pc = "select"
  /\ IF argv.id
     THEN /\ stderr' = Append(stderr, "FutureWarning")
          /\ main_url' = Unset
          /\ main_id' = argv.url_or_id
     ELSE /\ stderr' = stderr
          /\ IF re_match(argv.url_or_id)
             THEN main_url' = argv.url_or_id /\ main_id' = Unset
             ELSE main_url' = Unset /\ main_id' = argv.url_or_id
  /\ main_pc' = "dispatch"
  /\ UNCHANGED <<argv, called, main_exc, status, cache_vars, checksum_vars, path_vars>>

\* Lines 147-173: the operation is looked up by name and called with its
\* keyword arguments; a name that is not bound raises NameError.
Dispatch ==
  /\ main_pc = "dispatch"
  /\ LET op == IF argv.folder THEN "download_folder" ELSE "custom_download"
         kw == IF argv.folder
               THEN [url |-> main_url, file_id |-> main_id,
                     remaining_ok |-> argv.remaining_ok]
               ELSE [url |-> main_url, file_id |-> main_id]
     IN IF op \in ModuleNames
        THEN /\ called' = Append(called, OperationCall(op, kw))
             /\ main_pc' = "running"
             /\ main_exc' = main_exc
        ELSE /\ called' = called
             /\ main_pc' = "handler"
             /\ main_exc' = "NameError"
  /\ UNCHANGED <<argv, main_url, main_id, stderr, status, cache_vars, checksum_vars, path_vars>>

\* The operation returns (o = "none") or raises o.
OperationEnds(o) ==
  /\ main_pc = "running"
  /\ o \in Outcomes(called[Len(called)].op)
  /\ called' = [called EXCEPT ![Len(called)].raised = o]
  /\ IF o = "none"
     THEN main_pc' = "end" /\ status' = "returned" /\ main_exc' = main_exc
     ELSE main_pc' = "handler" /\ status' = status /\ main_exc' = o
  /\ UNCHANGED <<argv, main_url, main_id, stderr, cache_vars, checksum_vars, path_vars>>

\* Lines 174-200: the except clause for the exception of the try block.  The
\* clauses for the folder-capacity and the proxy error build their message
\* with indent(<text>, prefix="\t"); an exception raised in a clause is not
\* caught by the clauses after it and leaves main.
Handler ==
  /\ main_pc = "handler"
  /\ CASE main_exc = "FileURLRetrievalError" ->
            /\ stderr' = Append(stderr, "e")
            /\ status' = "exit 1"
            /\ main_exc' = main_exc
       [] main_exc \in {"FolderContentsMaximumLimitError", "ProxyError"} ->
            IF BindArgs(IndentParams, 1, {"prefix"}) = "ok"
            THEN /\ stderr' = Append(stderr, IF main_exc = "ProxyError"
                                             THEN "Failed to use proxy"
                                             ELSE "Failed to retrieve folder contents")
                 /\ status' = "exit 1"
                 /\ main_exc' = main_exc
            ELSE /\ stderr' = stderr
                 /\ status' = "raised"
                 /\ main_exc' = "TypeError"
       [] OTHER ->
            /\ stderr' = Append(stderr, "Error")
            /\ status' = "exit 1"
            /\ main_exc' = main_exc
  /\ main_pc' = "end"
  /\ UNCHANGED <<argv, main_url, main_id, called, cache_vars, checksum_vars, path_vars>>

NextMain ==
  \/ SelectMode
  \/ Dispatch
  \/ \E o \in Outcomes("download_folder") : OperationEnds(o)
  \/ Handler

SpecMain == InitMain /\ [][NextMain]_vars

\* ------------------------------------------------------------- claims
\* Helpers over the trace of a call.
Names(tr) == {tr[i][1] : i \in 1..Len(tr)}
Count(tr, name) == Cardinality({i \in 1..Len(tr) : tr[i][1] = name})
Pos(tr, name) == CHOOSE i \in 1..Len(tr) : tr[i][1] = name /\ \A j \in 1..(i - 1) : tr[j][1] # name
\* The finished calls of all processes.
Finished == UNION {{log[p][i] : i \in 1..Len(log[p])} : p \in Procs}
\* The target was written by call c.
WroteTarget(c) == \E q \in Paths : fs[q].by = c
NoChecksum(md5) == md5 = PyNone
\* A checksum as the spec understands it: 32 hexadecimal characters.
IsHex32(x) ==
  /\ x.t = "str"
  /\ Len(x.s) = 32
  /\ \A i \in 1..Len(x.s) : x.s[i] \in HexChars \cup {"A", "B", "C", "D", "E", "F"}
HitTrace(path) == <<Ev("exists"), EvA("return", path)>>

\* C1: from an absent target, two sequential calls with the same url, no
\* file_path and no checksum, of which the first publishes, make one network
\* fetch in total, and the second returns the path the first returned.
C1_OneFetchForTwoCalls ==
  \A p \in Procs : \A i \in 1..(Len(log[p]) - 1) :
    LET a == log[p][i]
        b == log[p][i + 1]
    IN (/\ a.args.url = b.args.url
        /\ a.args.file_path = NoPath /\ b.args.file_path = NoPath
        /\ NoChecksum(a.args.expected_md5) /\ NoChecksum(b.args.expected_md5)
        /\ ~a.existed
        /\ "move" \in Names(a.trace))
       => /\ Count(a.trace, "fetch") + Count(b.trace, "fetch") = 1
          /\ Count(a.trace, "fetch") = 1
          /\ b.exc = NoExc
          /\ b.ret = a.file_path
          /\ a.exc = NoExc => b.ret = a.ret

C1_Witness ==
  \E p \in Procs :
    /\ Len(log[p]) = 2
    /\ log[p][1].args.url = log[p][2].args.url
    /\ log[p][1].args.file_path = NoPath /\ log[p][2].args.file_path = NoPath
    /\ NoChecksum(log[p][1].args.expected_md5)
    /\ NoChecksum(log[p][2].args.expected_md5)
    /\ ~log[p][1].existed
    /\ log[p][1].exc = NoExc /\ log[p][2].exc = NoExc
    /\ "move" \in Names(log[p][1].trace)
    /\ log[p][2].ret = log[p][1].ret

\* C2: a call that finds its target and was given no checksum returns the
\* target path at once: its whole trace is the exists test and the return
\* (no digest, no fetch, no temporary directory, no lock, no move), it has no
\* temporary directory and no file is its work.
C2_CacheHitChangesNothing ==
  /\ \A c \in Finished :
       (c.existed /\ NoChecksum(c.args.expected_md5))
       => /\ c.trace = HitTrace(c.file_path)
          /\ c.ret = c.file_path /\ c.exc = NoExc
          /\ temps[c.call] = NoTemp
          /\ ~WroteTarget(c.call)
  /\ \A p \in Procs :
       (pc[p] # "idle" /\ existed[p] /\ NoChecksum(args[p].expected_md5))
       => pc[p] = "done" /\ lock # p

C2_Witness ==
  \E p \in Procs :
    /\ pc[p] = "done" /\ existed[p] /\ NoChecksum(args[p].expected_md5)
    /\ fs[file_path[p]] = File(OldContent, NoCall)
    /\ ret[p] = file_path[p]

\* C3: a call that finds its target and was given a 32-hex-character
\* checksum verifies the file; on a match it returns the path with no fetch;
\* on a mismatch it warns, does not raise there, and goes on to mkdtemp and
\* the fetch; and right after its move the target holds what it downloaded.
C3_VerifyExistingFile ==
  \A p \in Procs :
    (pc[p] # "idle" /\ existed[p] /\ IsHex32(args[p].expected_md5)
     /\ pc[p] # "prevalidate")
    => /\ Len(trace[p]) >= 3
       /\ trace[p][2][1] = "digest"
       /\ IF trace[p][2][2] = args[p].expected_md5.s
          THEN /\ trace[p] = <<Ev("exists"), trace[p][2], EvA("return", file_path[p])>>
               /\ pc[p] = "done" /\ ret[p] = file_path[p] /\ exc[p] = NoExc
          ELSE /\ trace[p][3] = Ev("warning")
               /\ Len(trace[p]) >= 4 => trace[p][4] = Ev("mkdtemp")
               /\ Len(trace[p]) >= 5 => trace[p][5] = Ev("fetch")
               /\ pc[p] = "done" => "fetch" \in Names(trace[p])
               /\ (pc[p] = "release" /\ pending[p] = NoExc)
                  => fs[file_path[p]] =
                       File(trace[p][Pos(trace[p], "downloaded")][2], Cid(p))

C3_Witness ==
  \E p \in Procs :
    /\ pc[p] = "release" /\ pending[p] = NoExc
    /\ existed[p] /\ IsHex32(args[p].expected_md5)
    /\ trace[p][2] = EvA("digest", calculate_md5sum(OldContent, 0))
    /\ trace[p][3] = Ev("warning")
    /\ fs[file_path[p]] = File(NewContent, Cid(p))

\* C4: at most one process is at the move, and a process at the move holds
\* the lock.
C4_MoveUnderLock ==
  /\ Cardinality({p \in Procs : pc[p] = "move"}) <= 1
  /\ \A p \in Procs : pc[p] \in {"move", "release"} => lock = p

C4_Witness ==
  \E p, q \in Procs :
    /\ p # q
    /\ pc[p] = "move" /\ lock = p
    /\ pc[q] = "acquire"
    /\ file_path[p] = file_path[q]

\* C5: a call whose download or move raised has ended by raising that same
\* exception, its temporary directory is gone, and, when it was the download
\* that raised, the call has moved nothing and no file is its work.
C5_FailureCleansUp ==
  \A c \in Finished :
    /\ "download failed" \in Names(c.trace)
       => /\ c.exc = OtherError(c.trace[Pos(c.trace, "download failed")][2][1])
          /\ c.ret = NoPath
          /\ c.trace[Len(c.trace)][1] = "raise"
          /\ ~temps[c.call].exists
          /\ "move" \notin Names(c.trace)
          /\ ~WroteTarget(c.call)
    /\ "move failed" \in Names(c.trace)
       => /\ c.exc = OtherError(c.trace[Pos(c.trace, "move failed")][2][1])
          /\ c.ret = NoPath
          /\ c.trace[Len(c.trace)][1] = "raise"
          /\ ~temps[c.call].exists

C5_Witness ==
  \E c, d \in Finished :
    /\ "download failed" \in Names(c.trace)
    /\ c.existed
    /\ fs[c.file_path] = File(OldContent, NoCall)
    /\ c.exc.type = "ProxyError"
    /\ "move failed" \in Names(d.trace)
    /\ ~temps[c.call].exists /\ ~temps[d.call].exists

\* C6: a call that has moved its download into place and was given a
\* checksum verifies the target; when the digest it finds differs from the
\* 32-character checksum it raises the mismatch error with both digests,
\* returns nothing and runs no callback, also after a tolerated mismatch of
\* the file that was there before.
C6_FreshMismatchRaises ==
  \A c \in Finished :
    ("move" \in Names(c.trace) /\ IsHex32(c.args.expected_md5))
    => \E i \in 1..Len(c.trace) :
         /\ i > Pos(c.trace, "move")
         /\ c.trace[i][1] = "digest"
         /\ IF c.trace[i][2] # c.args.expected_md5.s
            THEN /\ c.exc = MismatchError(c.trace[i][2], c.args.expected_md5)
                 /\ c.ret = NoPath
                 /\ "postprocess" \notin Names(c.trace)
                 /\ c.trace[Len(c.trace)][1] = "raise"
            ELSE c.exc.type # "AssertionError"

C6_Witness ==
  \E c \in Finished :
    /\ "warning" \in Names(c.trace)
    /\ "move" \in Names(c.trace)
    /\ c.args.postprocess # "None"
    /\ c.exc = MismatchError(calculate_md5sum(OldContent, 0), c.args.expected_md5)
    /\ "postprocess" \notin Names(c.trace)

\* C10: a call with a callback whose fresh download succeeded (moved, and
\* verified if a checksum was given) ran the callback exactly once, on its
\* target path, after the move and the verification and as the last thing
\* before it returned; if the callback raised, that exception is what the
\* call raised and the target is still there.
C10_CallbackOnceAfterPublish ==
  \A c \in Finished :
    (/\ c.args.postprocess # "None"
     /\ "move" \in Names(c.trace)
     /\ Truthy(c.args.expected_md5) => "verified" \in Names(c.trace))
    => /\ Count(c.trace, "postprocess") = 1
       /\ LET i == Pos(c.trace, "postprocess") IN
            /\ c.trace[i] = EvA("postprocess", c.file_path)
            /\ i > Pos(c.trace, "move")
            /\ "verified" \in Names(c.trace) => i > Pos(c.trace, "verified")
            /\ IF "callback raised" \in Names(c.trace)
               THEN /\ SubSeq(c.trace, i + 1, Len(c.trace)) =
                         <<Ev("callback raised"), EvA("raise", <<"CallbackError">>)>>
                    /\ c.exc = OtherError("CallbackError")
                    /\ c.ret = NoPath
                    /\ fs[c.file_path].exists
               ELSE /\ SubSeq(c.trace, i + 1, Len(c.trace)) =
                         <<EvA("return", c.file_path)>>
                    /\ c.ret = c.file_path /\ c.exc = NoExc

C10_Witness ==
  \E c \in Finished :
    /\ c.args.postprocess # "None"
    /\ "verified" \in Names(c.trace)
    /\ Count(c.trace, "postprocess") = 1
    /\ c.exc = OtherError("CallbackError")
    /\ fs[c.file_path] = File(NewContent, c.call)

Is32Chars(x) == x.t = "str" /\ Len(x.s) = 32
Called == vout # NotCalled

\* C7, as claimed: every expected value that is not 32 hexadecimal
\* characters makes validate_md5sum raise the input-validation error without
\* opening the file.
C7_AsClaimed ==
  (Called /\ ~IsHex32(vin.expected_md5))
  => vout.exc.type = "ValueError" /\ ~vout.opened

\* C7, amended: every expected value that is not a string of exactly 32
\* characters makes validate_md5sum raise the input-validation error without
\* opening the file; a string of 32 characters that are not all hexadecimal
\* passes that check, the file is read and the mismatch error is raised.
C7_RejectsWrongLength ==
  Called
  => /\ ~Is32Chars(vin.expected_md5)
        => /\ vout = [ok |-> FALSE, opened |-> FALSE,
                      exc |-> ValueError(vin.expected_md5)]
     /\ (Is32Chars(vin.expected_md5) /\ ~IsHex32(vin.expected_md5))
        => /\ vout.opened /\ ~vout.ok
           /\ vout.exc.type = "AssertionError"

C7_Witness ==
  /\ Called
  /\ vin.expected_md5 = Malformed3
  /\ vin.data = <<1, 2>>
  /\ vout.exc.type = "ValueError" /\ ~vout.opened

\* C8: for a file of digest D, validate_md5sum succeeds on D, and on every
\* other 32-hex-character value it raises the mismatch error carrying D and
\* that value, whatever the block size; it never fails without raising.
C8_VerifyAgainstDigest ==
  Called
  => LET D == calculate_md5sum(vin.data, 0) IN
     /\ vin.expected_md5 = PyStr(D)
        => vout = [ok |-> TRUE, opened |-> TRUE, exc |-> NoExc]
     /\ (IsHex32(vin.expected_md5) /\ vin.expected_md5.s # D)
        => /\ ~vout.ok
           /\ vout.exc = MismatchError(D, vin.expected_md5)
     /\ ~vout.ok => vout.exc.type \in {"ValueError", "AssertionError"}
     /\ vout.ok => vout.exc = NoExc

C8_Witness ==
  /\ Called
  /\ vin.data = <<1, 2, 3>> /\ vin.block_size = 2
  /\ vin.expected_md5 = PyStr(calculate_md5sum(<<1, 2>>, 0))
  /\ vout.exc = MismatchError(calculate_md5sum(<<1, 2, 3>>, 0), vin.expected_md5)

\* C9: a call given a checksum that is not 32 hexadecimal characters raises
\* the input-validation error before any I/O: it makes no temporary
\* directory, fetches nothing, moves nothing and reads no file.
C9_MalformedFailsFast ==
  \A p \in Procs :
    (pc[p] # "idle" /\ args[p].expected_md5 # PyNone
     /\ ~IsHex32(args[p].expected_md5))
    => /\ Names(trace[p]) \cap {"mkdtemp", "fetch", "move", "digest"} = {}
       /\ ~temps[Cid(p)].exists
       /\ ~WroteTarget(Cid(p))
       /\ pc[p] = "done" => exc[p] = ValueError(args[p].expected_md5)

\* The marker that stands for character c in a cache file name, written out
\* independently of CacheName.
Marker(c) ==
  CASE c = "/" -> <<"-", "S", "L", "A", "S", "H", "-">>
    [] c = ":" -> <<"-", "C", "O", "L", "O", "N", "-">>
    [] c = "=" -> <<"-", "E", "Q", "U", "A", "L", "-">>
    [] c = "?" -> <<"-", "Q", "U", "E", "S", "T", "I", "O", "N", "-">>
    [] OTHER -> <<c>>
RECURSIVE Marked(_)
\* Every character of s replaced at once by its marker.
Marked(s) == IF s = <<>> THEN <<>> ELSE Marker(Head(s)) \o Marked(Tail(s))
Derived == uout # NotDerived

C12_TempDirsRemoved ==
  \A c \in Finished : ~temps[c.call].exists

\* The content call p has finished downloading, <<>> while it has not.
Downloaded(p) ==
  IF "downloaded" \in Names(trace[p])
  THEN trace[p][Pos(trace[p], "downloaded")][2]
  ELSE <<>>
Transferring(p) == pc[p] = "downloading"

\* C13: the file at a target path changes only by a call putting there, in
\* one step, the complete content its own download finished with; a file
\* being transferred is in the temporary directory of its call alone, and
\* every file in a temporary directory was written by the call that owns it.
C13_TargetNeverPartial ==
  /\ [][\A q \in Paths :
          fs'[q] # fs[q]
          => \E p \in Procs :
               /\ file_path[p] = q
               /\ Downloaded(p) \in Contents
               /\ fs'[q] = File(Downloaded(p), Cid(p))]_vars
  /\ [](\A p \in Procs :
          Transferring(p)
          => /\ temps[Cid(p)].exists
             /\ temps[Cid(p)].dl = File(<<>>, Cid(p))
             /\ \A q \in Paths : fs[q].exists => fs[q].data \in Contents)
  /\ [](\A c \in CallIds : temps[c].dl.exists => temps[c].dl.by = c)

C13_Witness ==
  \E p, q \in Procs :
    /\ p # q
    /\ file_path[p] = file_path[q]
    /\ Transferring(p)
    /\ temps[Cid(p)].dl = File(<<>>, Cid(p))
    /\ fs[file_path[p]] = File(Downloaded(q), Cid(q))
    /\ \E c \in Finished : c.call = Cid(q) /\ "download failed" \notin Names(c.trace)

\* C14: the lock is held only by a process at the move or leaving it, never
\* by one that is downloading; so a process that has its download and waits
\* for the lock finds it free whenever no other process is at the move.
C14_LockNotHeldInTransfer ==
  /\ lock # 0 => pc[lock] \in {"move", "release"}
  /\ \A p \in Procs : pc[p] \in {"download", "downloading"} => lock # p
  /\ \A q \in Procs :
       (/\ pc[q] = "acquire"
        /\ \A p \in Procs \ {q} : pc[p] \notin {"move", "release"})
       => lock = 0

\* Two processes are in the transfer at once, for the same target, and
\* nobody holds the lock.
C14_Witness ==
  \E p, q \in Procs :
    /\ p # q
    /\ Transferring(p) /\ Transferring(q)
    /\ file_path[p] = file_path[q]
    /\ lock = 0

\* The same for two different targets.
C14_DifferentTargets ==
  \E p, q \in Procs :
    /\ p # q
    /\ Transferring(p) /\ Transferring(q)
    /\ file_path[p] # file_path[q]

\* One process publishes while the other is still in the transfer.
C14_PublishedDuringTransfer ==
  \E p, q \in Procs :
    /\ p # q
    /\ Transferring(p)
    /\ pc[q] = "release" /\ lock = q
    /\ "move" \in Names(trace[q])

\* The finished call c downloaded a body of its own and was given a
\* checksum of 32 characters.
OwnDownload(c) ==
  /\ "downloaded" \in Names(c.trace)
  /\ Is32Chars(c.args.expected_md5)
OwnDigest(c) == calculate_md5sum(c.trace[Pos(c.trace, "downloaded")][2], 0)

\* C15, as claimed: a call whose own download has the expected digest does
\* not raise the mismatch error, and a call whose own download has another
\* digest does not return.
C15_JudgesOwnDownload ==
  \A c \in Finished :
    OwnDownload(c)
    => IF OwnDigest(c) = c.args.expected_md5.s
       THEN c.exc.type # "AssertionError"
       ELSE c.ret = NoPath

Waiting(p) == pc[p] = "acquire"
\* p has left the with block: its file is at the target, or the exception
\* of the move is on its way to the handler.
LeftPublish(p) ==
  /\ lock # p
  /\ \/ pc[p] = "postvalidate" /\ trace[p][Len(trace[p]) - 1] = Ev("move")
     \/ pc[p] = "except" /\ pending[p] = OtherError("OSError")

\* C16: a process that is not at the move or leaving it does not hold the
\* lock; and, the publish steps being fair, every call whose download has
\* completed comes to hold the lock and then leaves the publish step, with
\* its file published or the exception of the move raised.
C16_LockReleased ==
  /\ [](\A p \in Procs : pc[p] \notin {"move", "release"} => lock # p)
  /\ \A p \in Procs : Waiting(p) ~> (lock = p /\ pc[p] = "move")
  /\ \A p \in Procs : Waiting(p) ~> LeftPublish(p)

\* The move of one process raised, the lock is free again and the other
\* process is waiting for it.
C16_Witness ==
  \E p, q \in Procs :
    /\ p # q
    /\ "move failed" \in Names(trace[p])
    /\ pc[p] \in {"except", "done"}
    /\ lock = 0
    /\ Waiting(q)

\* The finished call c was a cache hit: the target was there and no checksum
\* was given, or the digest of the target was the checksum given.
Hit(c) ==
  /\ c.existed
  /\ \/ NoChecksum(c.args.expected_md5)
     \/ /\ Is32Chars(c.args.expected_md5)
        /\ Len(c.trace) >= 2
        /\ c.trace[2] = EvA("digest", c.args.expected_md5.s)

\* C17: a call runs the callback only after it fetched and moved its file;
\* a cache hit returns the path with no fetch and no callback; a call with
\* a callback that returns has run it as often as it fetched.
C17_CallbackOnlyAfterFetch ==
  \A c \in Finished :
    /\ "postprocess" \in Names(c.trace)
       => /\ "fetch" \in Names(c.trace)
          /\ "move" \in Names(c.trace)
          /\ Pos(c.trace, "postprocess") > Pos(c.trace, "move")
    /\ Hit(c)
       => /\ "postprocess" \notin Names(c.trace)
          /\ "fetch" \notin Names(c.trace)
          /\ c.ret = c.file_path /\ c.exc = NoExc
    /\ (c.exc = NoExc /\ c.args.postprocess # "None")
       => Count(c.trace, "postprocess") = Count(c.trace, "fetch")

\* Two calls of one process with a callback, both returning: the first
\* fetched and ran it, the second hit the verified file and did not.
C17_Witness ==
  \E p \in Procs :
    /\ Len(log[p]) = 2
    /\ log[p][1].args.postprocess # "None" /\ log[p][2].args.postprocess # "None"
    /\ log[p][1].file_path = log[p][2].file_path
    /\ log[p][1].exc = NoExc /\ log[p][2].exc = NoExc
    /\ Count(log[p][1].trace, "fetch") = 1
    /\ Count(log[p][1].trace, "postprocess") = 1
    /\ Hit(log[p][2]) /\ IsHex32(log[p][2].args.expected_md5)
    /\ "postprocess" \notin Names(log[p][2].trace)

MainEnded == main_pc = "end"
ModeSelected == main_pc # "select"
IsSet(x) == x # Unset
\* The argument begins with http:// or with https://.
LooksLikeUrl(s) ==
  \/ Len(s) >= 7 /\ SubSeq(s, 1, 7) = <<"h", "t", "t", "p", ":", "/", "/">>
  \/ Len(s) >= 8 /\ SubSeq(s, 1, 8) = <<"h", "t", "t", "p", "s", ":", "/", "/">>

\* C18, as claimed: when the operation raised, main has written a
\* diagnostic to stderr and exited with status 1, and no exception has left
\* main; when it raised nothing, main has not exited with status 1.
C18_AllCaught ==
  (MainEnded /\ called # <<>>)
  => IF called[1].raised = "none"
     THEN status # "exit 1"
     ELSE /\ status = "exit 1"
          /\ stderr # <<>>
          /\ stderr[Len(stderr)] # "FutureWarning"

\* C19, as claimed: with the folder option main has called the folder
\* operation, and only it, with url, file_id and remaining_ok, and has not
\* exited with status 1 unless that operation raised; without the folder
\* option it has called custom_download and only it.
C19_FolderDispatch ==
  MainEnded
  => IF argv.folder
     THEN /\ Len(called) = 1
          /\ called[1].op = "download_folder"
          /\ called[1].kw = [url |-> main_url, file_id |-> main_id,
                             remaining_ok |-> argv.remaining_ok]
          /\ called[1].raised = "none" => status # "exit 1"
     ELSE /\ Len(called) = 1
          /\ called[1].op = "custom_download"

\* C20: once the mode is selected exactly one of url and file_id is set:
\* with the id flag file_id is the argument as given and url is unset;
\* without it an argument beginning with http:// or https:// is the url and
\* file_id is unset, and any other argument is file_id and url is unset.
C20_ExactlyOneOfUrlAndId ==
  ModeSelected
  => /\ IsSet(main_url) # IsSet(main_id)
     /\ IF argv.id
        THEN main_id = argv.url_or_id /\ main_url = Unset
        ELSE IF LooksLikeUrl(argv.url_or_id)
             THEN main_url = argv.url_or_id /\ main_id = Unset
             ELSE main_id = argv.url_or_id /\ main_url = Unset

C20_Witness ==
  /\ ModeSelected
  /\ argv.id
  /\ LooksLikeUrl(argv.url_or_id)
  /\ main_id = argv.url_or_id
  /\ main_url = Unset
====
